---------------------------- MODULE Spec2Model ----------------------------
(***************************************************************************)
(* Model of find_duplicates.py: the jdupes match sets are re-indexed by    *)
(* folder, analysed per folder, sorted and rendered to a markdown report   *)
(* that is then written to the user's Nextcloud folder.                    *)
(*                                                                         *)
(* A path is a pair <<folder, name>>; Path.parent is its first component.  *)
(* A MatchSet object is identified by its position in json["matchSets"]    *)
(* (the class defines no __eq__/__hash__, so set[MatchSet] is a set of     *)
(* object identities).                                                     *)
(***************************************************************************)
EXTENDS Integers, Sequences, FiniteSets, TLC

\* ------------------------------------------------------------------ bounds
MaxGroups == 2
MaxFiles == 3
FolderNames == <<"d1", "d2", "d3">>
FileNames == <<"a", "b">>
Sizes == {100, 1536}

Folders == {FolderNames[i] : i \in DOMAIN FolderNames}
Names == {FileNames[i] : i \in DOMAIN FileNames}
Files == Folders \X Names

\* -------------------------------------------------------------- exceptions
\* A call either returns a value or raises: [raised |-> "none", value |-> v]
\* or [raised |-> the exception, value |-> <<>>].
KeyError == "KeyError"
Return(v) == [raised |-> "none", value |-> v]
Raise(e) == [raised |-> e, value |-> <<>>]

\* ----------------------------------------------------------------- helpers
Range(s) == {s[i] : i \in DOMAIN s}

Injective(s) == \A i, j \in DOMAIN s : i # j => s[i] # s[j]

Perms(S) == {s \in [1..Cardinality(S) -> S] : Injective(s)}

parent(p) == p[1]

RECURSIVE SumSeq(_)
SumSeq(s) == IF s = <<>> THEN 0 ELSE Head(s) + SumSeq(Tail(s))

\* sum(map(lambda x: x.size, S)) over a set of entries
RECURSIVE SumSize(_)
SumSize(S) ==
    IF S = {} THEN 0
    ELSE LET x == CHOOSE y \in S : TRUE IN x.size + SumSize(S \ {x})

\* ------------------------------------------------------------------ MatchSet
\* A raw record is a function from the keys it has.
\* _get_file_list: Path(str_path["filePath"]) for every entry of
\* json_data["fileList"]; a missing key raises KeyError.
get_file_list(json_data) ==
    IF "fileList" \notin DOMAIN json_data THEN Raise(KeyError)
    ELSE IF \E i \in DOMAIN json_data.fileList :
                "filePath" \notin DOMAIN json_data.fileList[i]
         THEN Raise(KeyError)
         ELSE Return([i \in DOMAIN json_data.fileList |->
                         json_data.fileList[i].filePath])

\* Mutant: the record is validated, a negative size or an empty file list
\* is refused.
MatchSetValidated(json_data) ==
    IF "fileSize" \notin DOMAIN json_data THEN Raise(KeyError)
    ELSE IF get_file_list(json_data).raised # "none"
         THEN get_file_list(json_data)
         ELSE IF json_data.fileSize < 0 \/ json_data.fileList = <<>>
              THEN Raise("MalformedInputError")
              ELSE Return([file_size |-> json_data.fileSize,
                           file_list |-> get_file_list(json_data).value])

\* MatchSet.__init__: json_data["fileSize"] raises KeyError when the key is
\* missing; nothing else is checked and the values are stored as they are.
MatchSet(json_data) ==
    IF "fileSize" \notin DOMAIN json_data THEN Raise(KeyError)
    ELSE IF get_file_list(json_data).raised # "none"
         THEN get_file_list(json_data)
         ELSE Return([file_size |-> json_data.fileSize,
                      file_list |-> get_file_list(json_data).value])

directory_list(match_set) ==
    [i \in DOMAIN match_set.file_list |-> parent(match_set.file_list[i])]

\* _get_matchsets: one MatchSet object per record of json["matchSets"]
get_matchsets(json_data) ==
    IF \E i \in DOMAIN json_data : MatchSet(json_data[i]).raised # "none"
    THEN Raise(KeyError)
    ELSE Return([i \in DOMAIN json_data |-> MatchSet(json_data[i]).value])

\* ------------------------------------------------------------- folder cache
\* Mutant: a folder that is already indexed does not get the further match set.
RECURSIVE AddDirectoriesNewOnly(_, _, _)
AddDirectoriesNewOnly(result, id, dirs) ==
    IF dirs = <<>> THEN result
    ELSE LET folder == Head(dirs)
             r1 == IF folder \notin DOMAIN result
                   THEN result @@ (folder :> {id}) ELSE result
         IN AddDirectoriesNewOnly(r1, id, Tail(dirs))

\* the inner loop of _create_folder_cache over match_set.directory_list
RECURSIVE AddDirectories(_, _, _)
AddDirectories(result, id, dirs) ==
    IF dirs = <<>> THEN result
    ELSE LET folder == Head(dirs)
             r1 == IF folder \notin DOMAIN result
                   THEN result @@ (folder :> {}) ELSE result
             r2 == [r1 EXCEPT ![folder] = @ \cup {id}]
         IN AddDirectories(r2, id, Tail(dirs))

\* the outer loop of _create_folder_cache over the match sets still to visit
RECURSIVE FolderCacheLoop(_, _, _)
FolderCacheLoop(result, match_sets, todo) ==
    IF todo = {} THEN result
    ELSE LET id == CHOOSE i \in todo : TRUE
         IN FolderCacheLoop(
                AddDirectories(result, id, directory_list(match_sets[id])),
                match_sets, todo \ {id})

create_folder_cache(match_sets) ==
    FolderCacheLoop(<<>>, match_sets, DOMAIN match_sets)

\* Mutant: the size of a match set is counted once per member.
total_size_per_member(match_sets) ==
    SumSeq([i \in DOMAIN match_sets |->
               match_sets[i].file_size * Len(match_sets[i].file_list)])

total_size(match_sets) ==
    SumSeq([i \in DOMAIN match_sets |-> match_sets[i].file_size])

folders_with_duplicates(match_sets) ==
    UNION {{parent(match_sets[id].file_list[i]) :
               i \in DOMAIN match_sets[id].file_list} : id \in DOMAIN match_sets}

\* ------------------------------------------------------- per-folder analysis
\* Mutant: the cache is read with .get(folder, set()).
duplicates_in_folder_get(match_sets, folder_cache, folder) ==
    IF folder \notin DOMAIN folder_cache THEN Return({})
    ELSE Return(UNION {
           {[in_duplicate_folder |-> match_sets[id].file_list[i],
             other_paths |-> Range(match_sets[id].file_list)
                                 \ {match_sets[id].file_list[i]},
             size |-> match_sets[id].file_size] :
                i \in {k \in DOMAIN match_sets[id].file_list :
                          parent(match_sets[id].file_list[k]) = folder}} :
           id \in folder_cache[folder]})

\* Mutant: other_files.remove(file_path) is left out.
duplicates_in_folder_keeps_file(match_sets, folder_cache, folder) ==
    IF folder \notin DOMAIN folder_cache THEN Raise(KeyError)
    ELSE Return(UNION {
           {[in_duplicate_folder |-> match_sets[id].file_list[i],
             other_paths |-> Range(match_sets[id].file_list),
             size |-> match_sets[id].file_size] :
                i \in {k \in DOMAIN match_sets[id].file_list :
                          parent(match_sets[id].file_list[k]) = folder}} :
           id \in folder_cache[folder]})

\* DuplicateInFolder is a frozen dataclass: entries are equal when all three
\* fields are equal, so the result set holds each distinct record once.
duplicates_in_folder(match_sets, folder_cache, folder) ==
    IF folder \notin DOMAIN folder_cache THEN Raise(KeyError)
    ELSE Return(UNION {
           {[in_duplicate_folder |-> match_sets[id].file_list[i],
             other_paths |-> Range(match_sets[id].file_list)
                                 \ {match_sets[id].file_list[i]},
             size |-> match_sets[id].file_size] :
                i \in {k \in DOMAIN match_sets[id].file_list :
                          parent(match_sets[id].file_list[k]) = folder}} :
           id \in folder_cache[folder]})

\* ------------------------------------------------------------------ humansize
suffixes == <<"B", "KB", "MB", "GB", "TB", "PB">>

RECURSIVE Pow1024(_)
Pow1024(i) == IF i = 0 THEN 1 ELSE 1024 * Pow1024(i - 1)

\* the while loop: divide by 1024 while nbytes >= 1024 and a larger unit is left
RECURSIVE UnitIndex(_, _)
UnitIndex(nbytes, i) ==
    IF nbytes >= Pow1024(i + 1) /\ i < Len(suffixes) - 1
    THEN UnitIndex(nbytes, i + 1) ELSE i

\* f'{x:.2f}' of the quotient num/den, in hundredths (ties to even); dividing
\* by a power of two is exact in floating point for the sizes used here
RoundHundredths(num, den) ==
    LET q == (100 * num) \div den
        r == (100 * num) % den
    IN IF 2 * r < den THEN q
       ELSE IF 2 * r > den THEN q + 1
       ELSE IF q % 2 = 0 THEN q ELSE q + 1

\* The rendered text is the two-decimal value with trailing zeros and a trailing
\* point stripped, then two blanks and the suffix; it is represented by the pair
\* <<value in hundredths, suffix>>, from which the text is read off one to one.
humansize(nbytes) ==
    LET i == UnitIndex(nbytes, 0)
    IN <<RoundHundredths(nbytes, Pow1024(i)), suffixes[i + 1]>>

\* ---------------------------------------------------------------- to_markdown
\* Mutant: the key reads the wrong element of the tuple, the duplicates.
SortKeyDuplicates(entry) == Cardinality(entry[2])

\* the sort key of line 151: len(x[2]), the number of not-duplicated files
SortKey(entry) == Cardinality(entry[3])

\* sorted() is stable: an element goes behind every element whose key is not
\* larger, so elements with equal keys keep the order they arrived in.
RECURSIVE InsertSorted(_, _)
InsertSorted(x, s) ==
    IF s = <<>> THEN <<x>>
    ELSE IF SortKey(Head(s)) <= SortKey(x)
         THEN <<Head(s)>> \o InsertSorted(x, Tail(s))
         ELSE <<x>> \o s

RECURSIVE SortedFrom(_, _)
SortedFrom(done, rest) ==
    IF rest = <<>> THEN done
    ELSE SortedFrom(InsertSorted(Head(rest), done), Tail(rest))

\* Mutant: the list is rendered in the order it was built in.
Unsorted(list) == list

sorted(list) == SortedFrom(<<>>, list)

\* Mutant: the duplicated files are not taken out of the listing.
all_files_kept(all_files, duplicates) == all_files

\* lines 142-149: one tuple per folder, in the iteration order of the set
\* folders_with_duplicates; all_files[folder] is what iterdir() returned.
not_duplicate_files(all_files, duplicates) ==
    all_files \ {d.in_duplicate_folder : d \in duplicates}

ParseFolders(match_sets, folder_cache, order, all_files) ==
    [k \in DOMAIN order |->
        LET duplicates == duplicates_in_folder(match_sets, folder_cache, order[k])
        IN IF duplicates.raised # "none" THEN duplicates
           ELSE Return(<<order[k], duplicates.value,
                         not_duplicate_files(all_files[order[k]],
                                             duplicates.value)>>)]

\* lines 153-156: the global header
Header(match_sets) ==
    [match_sets |-> Cardinality(DOMAIN match_sets),
     folders |-> Cardinality(folders_with_duplicates(match_sets)),
     total |-> humansize(total_size(match_sets))]

\* Mutant: the rollup counts every match set of the folder once.
SectionPerMatchSet(match_sets, folder_cache, entry) ==
    [folder |-> entry[1],
     size |-> humansize(SumSeq([id \in DOMAIN match_sets |->
                  IF id \in folder_cache[entry[1]]
                  THEN match_sets[id].file_size ELSE 0])),
     only_duplicates |-> Cardinality(entry[3]) = 0,
     duplicates |-> {[file |-> d.in_duplicate_folder,
                      size |-> humansize(d.size),
                      others |-> d.other_paths] : d \in entry[2]},
     not_duplicates_heading |-> Cardinality(entry[3]) > 0,
     not_duplicates |-> entry[3]]

\* lines 159-183: one section per entry of the sorted list
Section(match_sets, folder_cache, entry) ==
    [folder |-> entry[1],
     size |-> humansize(SumSize(
                  duplicates_in_folder(match_sets, folder_cache, entry[1]).value)),
     only_duplicates |-> Cardinality(entry[3]) = 0,
     duplicates |-> {[file |-> d.in_duplicate_folder,
                      size |-> humansize(d.size),
                      others |-> d.other_paths] : d \in entry[2]},
     not_duplicates_heading |-> Cardinality(entry[3]) > 0,
     not_duplicates |-> entry[3]]

Render(match_sets, folder_cache, duplicate_folders) ==
    [header |-> Header(match_sets),
     sections |-> [k \in DOMAIN duplicate_folders |->
                      Section(match_sets, folder_cache, duplicate_folders[k])]]

\* to_markdown up to line 151, for one iteration order of the set
\* folders_with_duplicates and one result of iterdir() per folder: the sorted
\* list of tuples, or the KeyError of a failed lookup.
SortedFolders(match_sets, folder_cache, order, all_files) ==
    LET parsed == ParseFolders(match_sets, folder_cache, order, all_files)
    IN IF \E k \in DOMAIN parsed : parsed[k].raised # "none"
       THEN Raise(KeyError)
       ELSE Return(sorted([k \in DOMAIN parsed |-> parsed[k].value]))

\* ------------------------------------------------------------ jdupes output
\* the position of a path in the order of path names
Index(s, x) == CHOOSE i \in DOMAIN s : s[i] = x
PathRank(p) == Index(FolderNames, p[1]) * Len(FileNames) + Index(FileNames, p[2])

\* the paths of T in the order of their names
RECURSIVE ByName(_)
ByName(T) ==
    IF T = {} THEN <<>>
    ELSE LET p == CHOOSE x \in T : \A y \in T : PathRank(x) <= PathRank(y)
         IN <<p>> \o ByName(T \ {p})

\* A file list of one match set: jdupes reports at least two files per set,
\* every file once, in the order of the file names (its default, --order=name).
FileLists(S) ==
    {ByName(T) : T \in {U \in SUBSET S : Cardinality(U) \in 2..MaxFiles}}

\* json["matchSets"] as jdupes writes it: every file belongs to one match set
\* (sets of byte-identical files are disjoint), sizes are those of the files.
\* _get_matchsets keeps the match sets in a set, so their order in the output
\* is lost: they are numbered here in the order of their first files.
RECURSIVE JdupesOutputs(_, _, _)
JdupesOutputs(n, free, after) ==
    IF n = 0 THEN {<<>>}
    ELSE UNION {{<<[fileSize |-> sz,
                     fileList |-> [i \in DOMAIN l |-> [filePath |-> l[i]]]]>>
                        \o rest :
                    rest \in JdupesOutputs(n - 1, free \ Range(l), PathRank(l[1]))} :
                <<sz, l>> \in Sizes \X {fl \in FileLists(free) :
                                           PathRank(fl[1]) > after}}

\* ------------------------------------------------------------------- state
VARIABLES
    pc,                 \* where the run is: main, executed, constructed,
                        \* rendered, done, aborted (looked up: after Lookup)
    failure,            \* what aborted the run
    json_data,          \* json["matchSets"] as returned by _execute_jdupes
    match_sets,         \* JDupesOutput.match_sets
    folder_cache,       \* JDupesOutput._folder_cache
    all_files,          \* to_markdown: what iterdir() returned for each folder
    duplicate_folders,  \* to_markdown: the sorted list of tuples
    markdown,           \* the report to_markdown returned
    duplikate_md,       \* the content of Duplikate.md on disk
    lookup              \* a direct call of duplicates_in_folder and its outcome

vars == <<pc, failure, json_data, match_sets, folder_cache, all_files,
          duplicate_folders, markdown, duplikate_md, lookup>>

None == <<>>
NoFailure == <<"none", "none">>
NoLookup == [folder |-> "none", result |-> Return({})]
NoFile == [written |-> "nothing", content |-> None]

Init ==
    /\ pc = "main"
    /\ failure = NoFailure
    /\ json_data = None
    /\ match_sets = None
    /\ folder_cache = None
    /\ all_files = None
    /\ duplicate_folders = None
    /\ markdown = None
    /\ duplikate_md = NoFile
    /\ lookup = NoLookup

\* an exception nobody catches ends main()
Abort(where, exception) ==
    /\ pc' = "aborted"
    /\ failure' = <<where, exception>>

\* _execute_jdupes (lines 87-96): subprocess.run(check=True) and json.loads
\* either raise or return the parsed output.
ExecuteJdupes ==
    /\ pc = "main"
    /\ \/ /\ Abort("jdupes", "CalledProcessError")
          /\ UNCHANGED json_data
       \/ /\ Abort("json.loads", "JSONDecodeError")
          /\ UNCHANGED json_data
       \/ /\ \E n \in 0..MaxGroups : json_data' \in JdupesOutputs(n, Files, 0)
          /\ pc' = "executed"
          /\ UNCHANGED failure
    /\ UNCHANGED <<match_sets, folder_cache, all_files, duplicate_folders,
                   markdown, duplikate_md, lookup>>

\* the rest of JDupesOutput.__init__ (lines 79-85)
Construct ==
    /\ pc = "executed"
    /\ IF get_matchsets(json_data).raised # "none"
       THEN /\ Abort("MatchSet", get_matchsets(json_data).raised)
            /\ UNCHANGED <<match_sets, folder_cache>>
       ELSE /\ match_sets' = get_matchsets(json_data).value
            /\ folder_cache' = create_folder_cache(get_matchsets(json_data).value)
            /\ pc' = "constructed"
            /\ UNCHANGED failure
    /\ UNCHANGED <<json_data, all_files, duplicate_folders, markdown,
                   duplikate_md, lookup>>

\* to_markdown (lines 139-184). The set folders_with_duplicates is iterated in
\* an arbitrary order; iterdir() returns the folder's current entries, each
\* once, or raises.
ToMarkdown ==
    /\ pc = "constructed"
    /\ \/ /\ folders_with_duplicates(match_sets) # {}
          /\ Abort("iterdir", "OSError")
          /\ UNCHANGED <<all_files, duplicate_folders, markdown>>
       \/ \E order \in Perms(folders_with_duplicates(match_sets)) :
          \E ls \in [folders_with_duplicates(match_sets) -> SUBSET Names] :
             LET listing == [f \in DOMAIN ls |-> {<<f, n>> : n \in ls[f]}]
                 result == SortedFolders(match_sets, folder_cache, order, listing)
             IN IF result.raised # "none"
                THEN /\ Abort("to_markdown", result.raised)
                     /\ UNCHANGED <<all_files, duplicate_folders, markdown>>
                ELSE /\ all_files' = listing
                     /\ duplicate_folders' = result.value
                     /\ markdown' = Render(match_sets, folder_cache, result.value)
                     /\ pc' = "rendered"
                     /\ UNCHANGED failure
    /\ UNCHANGED <<json_data, match_sets, folder_cache, duplikate_md, lookup>>

\* Mutant: main() writes the file without waiting for to_markdown.
WriteToNextcloudEarly ==
    /\ pc \in {"constructed", "rendered"}
    /\ \/ /\ Abort("open", "OSError")
          /\ UNCHANGED duplikate_md
       \/ /\ Abort("write", "OSError")
          /\ duplikate_md' = [written |-> "partly", content |-> markdown]
       \/ /\ Abort("occ", "CalledProcessError")
          /\ duplikate_md' = [written |-> "all", content |-> markdown]
       \/ /\ pc' = "done"
          /\ duplikate_md' = [written |-> "all", content |-> markdown]
          /\ UNCHANGED failure
    /\ UNCHANGED <<json_data, match_sets, folder_cache, all_files,
                   duplicate_folders, markdown, lookup>>

\* write_to_nextcloud (lines 201-210), called by main() with the report that
\* to_markdown returned: open(mode="w") truncates the file, write fills it,
\* then the occ rescan runs with check=True.
WriteToNextcloud ==
    /\ pc = "rendered"
    /\ \/ /\ Abort("open", "OSError")
          /\ UNCHANGED duplikate_md
       \/ /\ Abort("write", "OSError")
          /\ duplikate_md' = [written |-> "partly", content |-> markdown]
       \/ /\ Abort("occ", "CalledProcessError")
          /\ duplikate_md' = [written |-> "all", content |-> markdown]
       \/ /\ pc' = "done"
          /\ duplikate_md' = [written |-> "all", content |-> markdown]
          /\ UNCHANGED failure
    /\ UNCHANGED <<json_data, match_sets, folder_cache, all_files,
                   duplicate_folders, markdown, lookup>>

Next ==
    \/ ExecuteJdupes
    \/ Construct
    \/ ToMarkdown
    \/ WriteToNextcloud

Spec == Init /\ [][Next]_vars

\* ---------------------------------------------------- the classes on their own
\* MatchSet, _get_matchsets, _create_folder_cache and duplicates_in_folder
\* called on arbitrary records and folders: keys may be missing, sizes negative,
\* file lists empty, repeated or shared between records.
RawPaths == {<<"d1", "a">>, <<"d2", "a">>}
RawSizes == {-1, 100}
RawLengths == {0, 1, 2}
RawEntries == {[filePath |-> p] : p \in RawPaths} \cup {<<>>}
RawLists == UNION {[1..n -> RawEntries] : n \in RawLengths}

RawRecords ==
    {[fileSize |-> sz, fileList |-> l] : sz \in RawSizes, l \in RawLists}
        \cup {[fileSize |-> sz] : sz \in RawSizes}
        \cup {[fileList |-> l] : l \in RawLists}
        \cup {<<>>}

InitApi ==
    /\ pc = "executed"
    /\ failure = NoFailure
    /\ json_data \in UNION {[1..n -> RawRecords] : n \in 0..MaxGroups}
    /\ match_sets = None
    /\ folder_cache = None
    /\ all_files = None
    /\ duplicate_folders = None
    /\ markdown = None
    /\ duplikate_md = NoFile
    /\ lookup = NoLookup

\* duplicates_in_folder(folder) for any folder (lines 127-136)
Lookup ==
    /\ pc = "constructed"
    /\ \E folder \in Folders :
          LET result == duplicates_in_folder(match_sets, folder_cache, folder)
          IN /\ lookup' = [folder |-> folder, result |-> result]
             /\ IF result.raised # "none"
                THEN Abort("duplicates_in_folder", result.raised)
                ELSE /\ pc' = "looked up"
                     /\ UNCHANGED failure
    /\ UNCHANGED <<json_data, match_sets, folder_cache, all_files,
                   duplicate_folders, markdown, duplikate_md>>

NextApi ==
    \/ Construct
    \/ Lookup
    \/ ToMarkdown

SpecApi == InitApi /\ [][NextApi]_vars

\* ------------------------------------------------------------------ claims
\* the run has built match_sets and the folder cache
Built == pc \in {"constructed", "rendered", "done", "looked up"}

\* to_markdown has just returned the report
Rendered == pc = "rendered"

\* the positions of a match set's file list that lie directly in a folder
SlotsIn(id, folder) ==
    {i \in DOMAIN match_sets[id].file_list :
        parent(match_sets[id].file_list[i]) = folder}

\* the match sets with at least one member directly in a folder
GroupsIn(folder) == {id \in DOMAIN match_sets : SlotsIn(id, folder) # {}}

\* every <<match set, position>> whose file lies directly in a folder
MembersIn(folder) ==
    UNION {{<<id, i>> : i \in SlotsIn(id, folder)} : id \in DOMAIN match_sets}

RECURSIVE SumMemberSizes(_)
SumMemberSizes(M) ==
    IF M = {} THEN 0
    ELSE LET m == CHOOSE x \in M : TRUE
         IN match_sets[m[1]].file_size + SumMemberSizes(M \ {m})

\* C1: the folder cache maps every indexed folder to exactly the match sets
\* that have a member directly in it, each of them once however many of its
\* members lie there.
C1_FolderCacheExact ==
    Built =>
        \A f \in DOMAIN folder_cache :
            /\ folder_cache[f] = GroupsIn(f)
            /\ Cardinality(folder_cache[f])
                   = Cardinality({m[1] : m \in MembersIn(f)})

\* a folder that holds two members of one match set and no member of another
C1_Witness ==
    /\ pc = "constructed"
    /\ \E f \in DOMAIN folder_cache :
          /\ \E id \in folder_cache[f] : Cardinality(SlotsIn(id, f)) >= 2
          /\ \E id \in DOMAIN match_sets : id \notin folder_cache[f]

\* C2: every entry of duplicates_in_folder(folder) names a file directly in the
\* folder, does not list that file among the other copies, covers together
\* with them all members of a match set that has a member in the folder, and
\* carries that match set's size.
C2_EntriesWellFormed ==
    Rendered =>
        \A k \in DOMAIN duplicate_folders :
            \A e \in duplicate_folders[k][2] :
                /\ parent(e.in_duplicate_folder) = duplicate_folders[k][1]
                /\ e.in_duplicate_folder \notin e.other_paths
                /\ \E id \in GroupsIn(duplicate_folders[k][1]) :
                      /\ {e.in_duplicate_folder} \cup e.other_paths
                             = Range(match_sets[id].file_list)
                      /\ e.size = match_sets[id].file_size

\* an entry whose other copies lie both in its own folder and in another one
C2_Witness ==
    /\ Rendered
    /\ \E k \in DOMAIN duplicate_folders :
          \E e \in duplicate_folders[k][2] :
             /\ \E p \in e.other_paths : parent(p) = duplicate_folders[k][1]
             /\ \E p \in e.other_paths : parent(p) # duplicate_folders[k][1]

\* C3: duplicates_in_folder yields one entry per match-set member that lies
\* directly in the folder, and the rollup of the folder's section is the sum of
\* the sizes counted once per such member (k members of a set of size s give k*s).
C3_RollupPerMember ==
    Rendered =>
        \A k \in DOMAIN duplicate_folders :
            LET folder == duplicate_folders[k][1]
            IN /\ Cardinality(duplicate_folders[k][2])
                      = Cardinality(MembersIn(folder))
               /\ markdown.sections[k].folder = folder
               /\ markdown.sections[k].size
                      = humansize(SumSize(duplicate_folders[k][2]))
               /\ markdown.sections[k].size
                      = humansize(SumMemberSizes(MembersIn(folder)))

\* a folder with two members of one match set of 1536 bytes: two entries,
\* and a rollup of 3072 bytes, rendered as 3 KB
C3_Witness ==
    /\ Rendered
    /\ \E k \in DOMAIN duplicate_folders :
          /\ \E id \in DOMAIN match_sets :
                /\ Cardinality(SlotsIn(id, duplicate_folders[k][1])) = 2
                /\ match_sets[id].file_size = 1536
          /\ Cardinality(duplicate_folders[k][2]) = 2
          /\ markdown.sections[k].size = <<300, "KB">>

\* the folders of the report's sections, in their order
FolderSequence(report) ==
    [k \in DOMAIN report.sections |-> report.sections[k].folder]

\* the number of listed files of a folder that are no member of a match set
NotDuplicateCount(folder) ==
    Cardinality({p \in all_files[folder] : \A id \in DOMAIN match_sets :
                    p \notin Range(match_sets[id].file_list)})

\* the folders of the sections, in their order, of another run of to_markdown
\* on the same match sets and the same listings that iterates the folders in
\* the given order (a section is rendered per tuple of the sorted list)
OtherRun(order) ==
    LET other == SortedFolders(match_sets, folder_cache, order, all_files).value
    IN [k \in DOMAIN other |-> other[k][1]]

\* C4 as claimed: every iteration order of the folders gives the same sequence
\* of folder sections, also when two folders have the same number of
\* not-duplicated files.
C4_OrderIndependent ==
    Rendered =>
        \A order \in Perms(DOMAIN all_files) :
            OtherRun(order) = FolderSequence(markdown)

\* C4 as amended: every iteration order gives the same sequence of counts of
\* not-duplicated files, and a position can hold different folders in two runs
\* only if the folder there shares its count with another folder.
C4_OrderIndependentUpToTies ==
    Rendered =>
        \A order \in Perms(DOMAIN all_files) :
            LET other == OtherRun(order)
                mine == FolderSequence(markdown)
            IN /\ Len(other) = Len(mine)
               /\ \A k \in DOMAIN mine :
                     /\ NotDuplicateCount(other[k]) = NotDuplicateCount(mine[k])
                     /\ other[k] # mine[k] =>
                           \E j \in DOMAIN mine :
                              /\ j # k
                              /\ NotDuplicateCount(mine[j])
                                     = NotDuplicateCount(mine[k])

\* three folders, one without not-duplicated files and two that tie with one
\* each: the first section is the same in every run, the other two may swap
C4_Witness ==
    /\ Rendered
    /\ Len(markdown.sections) = 3
    /\ NotDuplicateCount(markdown.sections[1].folder) = 0
    /\ NotDuplicateCount(markdown.sections[2].folder) = 1
    /\ NotDuplicateCount(markdown.sections[3].folder) = 1
    /\ \E order \in Perms(DOMAIN all_files) :
          OtherRun(order) # FolderSequence(markdown)

\* C5: the folder sections are in ascending order of the number of
\* not-duplicated files, so every folder without such files comes before every
\* folder with some.
C5_SectionsAscending ==
    Rendered =>
        /\ \A k \in 1..(Len(markdown.sections) - 1) :
              NotDuplicateCount(markdown.sections[k].folder)
                  <= NotDuplicateCount(markdown.sections[k + 1].folder)
        /\ \A j, k \in DOMAIN markdown.sections :
              /\ NotDuplicateCount(markdown.sections[j].folder) = 0
              /\ NotDuplicateCount(markdown.sections[k].folder) > 0
              => j < k

\* three sections: two folders without not-duplicated files, then one with
\* one, although it is the first folder by name
C5_Witness ==
    /\ Rendered
    /\ Len(markdown.sections) = 3
    /\ NotDuplicateCount(markdown.sections[1].folder) = 0
    /\ NotDuplicateCount(markdown.sections[2].folder) = 0
    /\ NotDuplicateCount(markdown.sections[3].folder) = 1
    /\ markdown.sections[3].folder = "d1"

RECURSIVE SumFileSizes(_)
SumFileSizes(ids) ==
    IF ids = {} THEN 0
    ELSE LET id == CHOOSE i \in ids : TRUE
         IN match_sets[id].file_size + SumFileSizes(ids \ {id})

\* C7: the header states the number of match sets, the number of folders with
\* duplicates, which is the number of sections, and the sum of the sizes taken
\* once per match set.
C7_HeaderTotals ==
    Rendered =>
        /\ markdown.header.match_sets = Len(json_data)
        /\ markdown.header.folders
               = Cardinality({f \in Folders : GroupsIn(f) # {}})
        /\ markdown.header.folders = Len(markdown.sections)
        /\ markdown.header.total = humansize(SumFileSizes(DOMAIN match_sets))

\* two match sets of the same size, one of three members, over three folders
C7_Witness ==
    /\ Rendered
    /\ Len(json_data) = 2
    /\ match_sets[1].file_size = match_sets[2].file_size
    /\ Len(match_sets[1].file_list) = 3
    /\ markdown.header.folders = 3
    /\ markdown.header.total = <<300, "KB">>

\* C8: in every section the not-duplicated files are the folder's listing
\* without the files of the folder's duplicate entries, and exactly one of the
\* marker of a folder of duplicates only and the list of not-duplicated files
\* is rendered: the marker when there are none, the list when there are some.
C8_NotDuplicatesAndMarker ==
    Rendered =>
        \A k \in DOMAIN markdown.sections :
            LET section == markdown.sections[k]
                duplicate_files ==
                    {d.file : d \in section.duplicates}
            IN /\ section.not_duplicates
                      = all_files[section.folder] \ duplicate_files
               /\ section.not_duplicates \cap duplicate_files = {}
               /\ section.only_duplicates <=> section.not_duplicates = {}
               /\ section.not_duplicates_heading <=> section.not_duplicates # {}
               /\ section.only_duplicates # section.not_duplicates_heading

\* a folder whose listing is its one duplicated file, marked as duplicates
\* only, beside a folder that lists a duplicated and a not-duplicated file
C8_Witness ==
    /\ Rendered
    /\ \E k \in DOMAIN markdown.sections :
          /\ markdown.sections[k].only_duplicates
          /\ all_files[markdown.sections[k].folder] # {}
    /\ \E k \in DOMAIN markdown.sections :
          /\ markdown.sections[k].not_duplicates_heading
          /\ \E d \in markdown.sections[k].duplicates :
                d.file \in all_files[markdown.sections[k].folder]

\* the report has a section for every folder that holds a duplicate
ReportComplete ==
    /\ Len(markdown.sections) = Cardinality(folders_with_duplicates(match_sets))
    /\ {markdown.sections[k].folder : k \in DOMAIN markdown.sections}
           = folders_with_duplicates(match_sets)

Malformed(record) ==
    \/ "fileSize" \notin DOMAIN record
    \/ record.fileSize < 0
    \/ "fileList" \notin DOMAIN record
    \/ record.fileList = <<>>

\* a raw record that lacks a key the constructor reads
MissingKey(record) ==
    \/ "fileSize" \notin DOMAIN record
    \/ "fileList" \notin DOMAIN record
    \/ \E k \in DOMAIN record.fileList : "filePath" \notin DOMAIN record.fileList[k]

\* the constructor has run and every MatchSet was constructed
ConstructOK == pc # "executed" /\ failure[1] # "MatchSet"

C10_CacheKeysAndFatalLookup ==
    ConstructOK =>
        /\ DOMAIN folder_cache = folders_with_duplicates(match_sets)
        /\ DOMAIN folder_cache = {f \in Folders : GroupsIn(f) # {}}
        /\ failure[1] # "to_markdown"
        /\ lookup.folder # "none" =>
              IF lookup.folder \in DOMAIN folder_cache
              THEN lookup.result.raised = "none" /\ pc = "looked up"
              ELSE /\ lookup.result.raised = KeyError
                   /\ pc = "aborted"
                   /\ failure = <<"duplicates_in_folder", KeyError>>

\* d1 is in the cache, d2 is not, and looking d2 up has ended the run
C10_Witness ==
    /\ pc = "aborted"
    /\ DOMAIN folder_cache = {"d1"}
    /\ lookup.folder = "d2"
    /\ lookup.result.raised = KeyError

====
